---- MODULE Spec2Model ----
(***************************************************************************)
(* syswatch.py: a host health monitor.  main() parses the command line,    *)
(* writes the three alert thresholds into the module-level THRESHOLDS      *)
(* dictionary and then runs sampling cycles: take_snapshot (which calls    *)
(* check_alerts), one rendering on stdout, an optional appended file line, *)
(* one log warning per alert, then either break (interval 0) or sleep.     *)
(*                                                                         *)
(* Percentages are floats with one decimal in the program; here they are   *)
(* integers counting tenths of a percent (849 is 84.9, 850 is 85.0).       *)
(***************************************************************************)
EXTENDS Integers, Sequences, FiniteSets, TLC

VARIABLES
    pc,              \* position of main(), or of a test harness
    args,            \* the argparse Namespace returned by parse_args
    THRESHOLDS,      \* the module-level threshold dictionary
    snapshot,        \* main's local `snapshot`: <<>> while unbound, else <<dict>>
    pending,         \* alerts of the `for alert in snapshot["alerts"]` loop not yet logged
    stdout,          \* what print() has emitted: <<cycle, kind>> entries
    outfile,         \* lines appended to args.output: the cycle of each line
    logwarn,         \* log.warning calls: [cycle, message]
    taken,           \* history: every snapshot take_snapshot has returned
    calls,           \* history: number of take_snapshot calls begun
    sleeps,          \* history: number of time.sleep calls that returned
    exc,             \* the exception that ended main, "None" if none
    result,          \* test harness: <<>> or <<value returned by check_alerts>>
    uptime_seconds,  \* test harness: the argument of _fmt_uptime
    uptime_human     \* test harness: <<>> or <<value returned by _fmt_uptime>>

vars == <<pc, args, THRESHOLDS, snapshot, pending, stdout, outfile, logwarn,
          taken, calls, sleeps, exc, result, uptime_seconds, uptime_human>>

----------------------------------------------------------------------------
(* Bounds of the model *)

MaxCycles == 2
MaxUptime == 180000

(* Values the command line and the metrics provider are drawn from *)

ArgIntervals == {-1, 0, 1}
ArgOutputs == {"None", "metrics.jsonl"}
ArgThresholdValues == {-50, 850, 900, 1010}
ReadingValues == {849, 900}
TestThresholdValues == {-50, 0, 850, 900, 1010}
TestReadingValues == {0, 849, 850, 900, 1000}

----------------------------------------------------------------------------
(* Module-level data *)

DefaultThresholds ==
    [cpu_percent |-> 850, memory_percent |-> 850, disk_percent |-> 900]

Metrics == <<"cpu_percent", "memory_percent", "disk_percent">>

(* str() of a float with one decimal, as the f-strings render it *)
RECURSIVE FmtFloat(_)
FmtFloat(x) ==
    IF x < 0 THEN "-" \o FmtFloat(-x)
    ELSE ToString(x \div 10) \o "." \o ToString(x % 10)

----------------------------------------------------------------------------
(* check_alerts *)

check_alerts_strict(snap) ==
    LET cpu_pct == snap.cpu.percent_overall
        mem_pct == snap.memory.ram.percent
        disk_pct == snap.disk.percent
        a1 == IF cpu_pct > THRESHOLDS.cpu_percent
              THEN <<[level |-> "WARNING", metric |-> "cpu_percent",
                      value |-> cpu_pct, threshold |-> THRESHOLDS.cpu_percent,
                      message |-> "CPU usage " \o FmtFloat(cpu_pct) \o "% exceeds "
                                  \o FmtFloat(THRESHOLDS.cpu_percent) \o "% threshold"]>>
              ELSE <<>>
        a2 == IF mem_pct > THRESHOLDS.memory_percent
              THEN <<[level |-> "WARNING", metric |-> "memory_percent",
                      value |-> mem_pct, threshold |-> THRESHOLDS.memory_percent,
                      message |-> "Memory usage " \o FmtFloat(mem_pct) \o "% exceeds "
                                  \o FmtFloat(THRESHOLDS.memory_percent) \o "% threshold"]>>
              ELSE <<>>
        a3 == IF disk_pct > THRESHOLDS.disk_percent
              THEN <<[level |-> "CRITICAL", metric |-> "disk_percent",
                      value |-> disk_pct, threshold |-> THRESHOLDS.disk_percent,
                      message |-> "Disk usage " \o FmtFloat(disk_pct) \o "% exceeds "
                                  \o FmtFloat(THRESHOLDS.disk_percent) \o "% threshold"]>>
              ELSE <<>>
    IN  a1 \o a2 \o a3

check_alerts_disk_first(snap) ==
    LET cpu_pct == snap.cpu.percent_overall
        mem_pct == snap.memory.ram.percent
        disk_pct == snap.disk.percent
        a1 == IF cpu_pct >= THRESHOLDS.cpu_percent
              THEN <<[level |-> "WARNING", metric |-> "cpu_percent",
                      value |-> cpu_pct, threshold |-> THRESHOLDS.cpu_percent,
                      message |-> "CPU usage " \o FmtFloat(cpu_pct) \o "% exceeds "
                                  \o FmtFloat(THRESHOLDS.cpu_percent) \o "% threshold"]>>
              ELSE <<>>
        a2 == IF mem_pct >= THRESHOLDS.memory_percent
              THEN <<[level |-> "WARNING", metric |-> "memory_percent",
                      value |-> mem_pct, threshold |-> THRESHOLDS.memory_percent,
                      message |-> "Memory usage " \o FmtFloat(mem_pct) \o "% exceeds "
                                  \o FmtFloat(THRESHOLDS.memory_percent) \o "% threshold"]>>
              ELSE <<>>
        a3 == IF disk_pct >= THRESHOLDS.disk_percent
              THEN <<[level |-> "CRITICAL", metric |-> "disk_percent",
                      value |-> disk_pct, threshold |-> THRESHOLDS.disk_percent,
                      message |-> "Disk usage " \o FmtFloat(disk_pct) \o "% exceeds "
                                  \o FmtFloat(THRESHOLDS.disk_percent) \o "% threshold"]>>
              ELSE <<>>
    IN  a3 \o a1 \o a2

check_alerts_disk_warning(snap) ==
    LET cpu_pct == snap.cpu.percent_overall
        mem_pct == snap.memory.ram.percent
        disk_pct == snap.disk.percent
        a1 == IF cpu_pct >= THRESHOLDS.cpu_percent
              THEN <<[level |-> "WARNING", metric |-> "cpu_percent",
                      value |-> cpu_pct, threshold |-> THRESHOLDS.cpu_percent,
                      message |-> "CPU usage " \o FmtFloat(cpu_pct) \o "% exceeds "
                                  \o FmtFloat(THRESHOLDS.cpu_percent) \o "% threshold"]>>
              ELSE <<>>
        a2 == IF mem_pct >= THRESHOLDS.memory_percent
              THEN <<[level |-> "WARNING", metric |-> "memory_percent",
                      value |-> mem_pct, threshold |-> THRESHOLDS.memory_percent,
                      message |-> "Memory usage " \o FmtFloat(mem_pct) \o "% exceeds "
                                  \o FmtFloat(THRESHOLDS.memory_percent) \o "% threshold"]>>
              ELSE <<>>
        a3 == IF disk_pct >= THRESHOLDS.disk_percent
              THEN <<[level |-> "WARNING", metric |-> "disk_percent",
                      value |-> disk_pct, threshold |-> THRESHOLDS.disk_percent,
                      message |-> "Disk usage " \o FmtFloat(disk_pct) \o "% exceeds "
                                  \o FmtFloat(THRESHOLDS.disk_percent) \o "% threshold"]>>
              ELSE <<>>
    IN  a1 \o a2 \o a3

(* a variant that drops an alert the previous cycle already raised *)
check_alerts_dedup(snap) ==
    LET cpu_pct == snap.cpu.percent_overall
        mem_pct == snap.memory.ram.percent
        disk_pct == snap.disk.percent
        seen(m) == /\ taken # <<>>
                   /\ \E k \in 1..Len(taken[Len(taken)].alerts) :
                          taken[Len(taken)].alerts[k].metric = m
        a1 == IF cpu_pct >= THRESHOLDS.cpu_percent /\ ~seen("cpu_percent")
              THEN <<[level |-> "WARNING", metric |-> "cpu_percent",
                      value |-> cpu_pct, threshold |-> THRESHOLDS.cpu_percent,
                      message |-> "CPU usage " \o FmtFloat(cpu_pct) \o "% exceeds "
                                  \o FmtFloat(THRESHOLDS.cpu_percent) \o "% threshold"]>>
              ELSE <<>>
        a2 == IF mem_pct >= THRESHOLDS.memory_percent /\ ~seen("memory_percent")
              THEN <<[level |-> "WARNING", metric |-> "memory_percent",
                      value |-> mem_pct, threshold |-> THRESHOLDS.memory_percent,
                      message |-> "Memory usage " \o FmtFloat(mem_pct) \o "% exceeds "
                                  \o FmtFloat(THRESHOLDS.memory_percent) \o "% threshold"]>>
              ELSE <<>>
        a3 == IF disk_pct >= THRESHOLDS.disk_percent /\ ~seen("disk_percent")
              THEN <<[level |-> "CRITICAL", metric |-> "disk_percent",
                      value |-> disk_pct, threshold |-> THRESHOLDS.disk_percent,
                      message |-> "Disk usage " \o FmtFloat(disk_pct) \o "% exceeds "
                                  \o FmtFloat(THRESHOLDS.disk_percent) \o "% threshold"]>>
              ELSE <<>>
    IN  a1 \o a2 \o a3

check_alerts(snap) ==
    LET cpu_pct == snap.cpu.percent_overall
        mem_pct == snap.memory.ram.percent
        disk_pct == snap.disk.percent
        a1 == IF cpu_pct >= THRESHOLDS.cpu_percent
              THEN <<[level |-> "WARNING", metric |-> "cpu_percent",
                      value |-> cpu_pct, threshold |-> THRESHOLDS.cpu_percent,
                      message |-> "CPU usage " \o FmtFloat(cpu_pct) \o "% exceeds "
                                  \o FmtFloat(THRESHOLDS.cpu_percent) \o "% threshold"]>>
              ELSE <<>>
        a2 == IF mem_pct >= THRESHOLDS.memory_percent
              THEN <<[level |-> "WARNING", metric |-> "memory_percent",
                      value |-> mem_pct, threshold |-> THRESHOLDS.memory_percent,
                      message |-> "Memory usage " \o FmtFloat(mem_pct) \o "% exceeds "
                                  \o FmtFloat(THRESHOLDS.memory_percent) \o "% threshold"]>>
              ELSE <<>>
        a3 == IF disk_pct >= THRESHOLDS.disk_percent
              THEN <<[level |-> "CRITICAL", metric |-> "disk_percent",
                      value |-> disk_pct, threshold |-> THRESHOLDS.disk_percent,
                      message |-> "Disk usage " \o FmtFloat(disk_pct) \o "% exceeds "
                                  \o FmtFloat(THRESHOLDS.disk_percent) \o "% threshold"]>>
              ELSE <<>>
    IN  a1 \o a2 \o a3

----------------------------------------------------------------------------
(* take_snapshot: the three readings come from the metrics provider *)

Readings(cpu, mem, disk) ==
    [cpu |-> [percent_overall |-> cpu],
     memory |-> [ram |-> [percent |-> mem]],
     disk |-> [percent |-> disk]]

take_snapshot_always_ok(cpu, mem, disk) ==
    LET collected == Readings(cpu, mem, disk)
        alerts == check_alerts(collected)
    IN  [cpu |-> collected.cpu, memory |-> collected.memory, disk |-> collected.disk,
         alerts |-> alerts,
         status |-> "OK"]

take_snapshot(cpu, mem, disk) ==
    LET collected == Readings(cpu, mem, disk)
        alerts == check_alerts(collected)
    IN  [cpu |-> collected.cpu, memory |-> collected.memory, disk |-> collected.disk,
         alerts |-> alerts,
         status |-> IF alerts # <<>> THEN "ALERT" ELSE "OK"]

----------------------------------------------------------------------------
(* _fmt_uptime *)

divmod(a, b) == <<a \div b, a % b>>

fmt_uptime_no_rem(seconds) ==
    LET dr == divmod(seconds, 86400)
        hr == divmod(seconds, 3600)
        mr == divmod(hr[2], 60)
    IN  ToString(dr[1]) \o "d " \o ToString(hr[1]) \o "h " \o ToString(mr[1]) \o "m"

fmt_uptime(seconds) ==
    LET dr == divmod(seconds, 86400)
        hr == divmod(dr[2], 3600)
        mr == divmod(hr[2], 60)
    IN  ToString(dr[1]) \o "d " \o ToString(hr[1]) \o "h " \o ToString(mr[1]) \o "m"

----------------------------------------------------------------------------
(* main *)

Namespace == args[1]
Snap == snapshot[1]

(* the positions of main() inside its try block *)
InTry == {"take_snapshot", "print_json", "write_file", "print_body",
          "print_alerts", "log_alerts", "sleep"}
BeforeTry == {"parse_args", "apply_thresholds"}
Ended == {"done", "stopped", "crashed"}

Init ==
    /\ pc = "parse_args"
    /\ args = <<>>
    /\ THRESHOLDS = DefaultThresholds
    /\ snapshot = <<>>
    /\ pending = <<>>
    /\ stdout = <<>>
    /\ outfile = <<>>
    /\ logwarn = <<>>
    /\ taken = <<>>
    /\ calls = 0
    /\ sleeps = 0
    /\ exc = "None"
    /\ result = <<>>
    /\ uptime_seconds = 0
    /\ uptime_human = <<>>

(* parse_args: every option is accepted as typed; no range is checked *)
ParseArgs ==
    /\ pc = "parse_args"
    /\ \E iv \in ArgIntervals, js \in BOOLEAN, out \in ArgOutputs,
          ct \in ArgThresholdValues, mt \in ArgThresholdValues,
          dt \in ArgThresholdValues :
          args' = <<[interval |-> iv, json |-> js, output |-> out,
                     cpu_threshold |-> ct, mem_threshold |-> mt,
                     disk_threshold |-> dt]>>
    /\ pc' = "apply_thresholds"
    /\ UNCHANGED <<THRESHOLDS, snapshot, pending, stdout, outfile, logwarn,
                   taken, calls, sleeps, exc, result, uptime_seconds, uptime_human>>

(* lines 264-268: "Apply custom thresholds", then the starting log line *)
ApplyThresholds ==
    /\ pc = "apply_thresholds"
    /\ THRESHOLDS' = [cpu_percent |-> Namespace.cpu_threshold,
                      memory_percent |-> Namespace.mem_threshold,
                      disk_percent |-> Namespace.disk_threshold]
    /\ pc' = "take_snapshot"
    /\ UNCHANGED <<args, snapshot, pending, stdout, outfile, logwarn,
                   taken, calls, sleeps, exc, result, uptime_seconds, uptime_human>>

(* line 272, the provider answers *)
TakeSnapshot ==
    /\ pc = "take_snapshot"
    /\ calls < MaxCycles
    /\ \E cpu \in ReadingValues, mem \in ReadingValues, disk \in ReadingValues :
          /\ snapshot' = <<take_snapshot(cpu, mem, disk)>>
          /\ taken' = Append(taken, take_snapshot(cpu, mem, disk))
    /\ calls' = calls + 1
    /\ pc' = IF Namespace.json THEN "print_json" ELSE "print_body"
    /\ UNCHANGED <<args, THRESHOLDS, pending, stdout, outfile, logwarn,
                   sleeps, exc, result, uptime_seconds, uptime_human>>

(* line 272, a collect_* call raises: nothing in main catches it *)
TakeSnapshotFails ==
    /\ pc = "take_snapshot"
    /\ calls < MaxCycles
    /\ calls' = calls + 1
    /\ exc' = "ProviderError"
    /\ pc' = "crashed"
    /\ UNCHANGED <<args, THRESHOLDS, snapshot, pending, stdout, outfile, logwarn,
                   taken, sleeps, result, uptime_seconds, uptime_human>>

(* lines 275-277 *)
PrintJson ==
    /\ pc = "print_json"
    /\ stdout' = Append(stdout, [cycle |-> calls, kind |-> "json"])
    /\ IF Namespace.output # "None"
       THEN pc' = "write_file" /\ pending' = pending
       ELSE pc' = "log_alerts" /\ pending' = Snap.alerts
    /\ UNCHANGED <<args, THRESHOLDS, snapshot, outfile, logwarn,
                   taken, calls, sleeps, exc, result, uptime_seconds, uptime_human>>

(* lines 278-279 *)
WriteFile ==
    /\ pc = "write_file"
    /\ outfile' = Append(outfile, calls)
    /\ pending' = Snap.alerts
    /\ pc' = "log_alerts"
    /\ UNCHANGED <<args, THRESHOLDS, snapshot, stdout, logwarn,
                   taken, calls, sleeps, exc, result, uptime_seconds, uptime_human>>

(* line 278, open() raises OSError: nothing in main catches it *)
WriteFileFails ==
    /\ pc = "write_file"
    /\ exc' = "OSError"
    /\ pc' = "crashed"
    /\ UNCHANGED <<args, THRESHOLDS, snapshot, pending, stdout, outfile, logwarn,
                   taken, calls, sleeps, result, uptime_seconds, uptime_human>>

(* print_snapshot, lines 193-208: header, status, uptime, OS, CPU, memory, disk *)
PrintBody ==
    /\ pc = "print_body"
    /\ stdout' = Append(stdout, [cycle |-> calls, kind |-> "text_body"])
    /\ pc' = "print_alerts"
    /\ UNCHANGED <<args, THRESHOLDS, snapshot, pending, outfile, logwarn,
                   taken, calls, sleeps, exc, result, uptime_seconds, uptime_human>>

(* print_snapshot, lines 209-215: the alert list or the all-clear line *)
PrintAlerts ==
    /\ pc = "print_alerts"
    /\ stdout' = Append(stdout, [cycle |-> calls, kind |-> "text_alerts"])
    /\ pending' = Snap.alerts
    /\ pc' = "log_alerts"
    /\ UNCHANGED <<args, THRESHOLDS, snapshot, outfile, logwarn,
                   taken, calls, sleeps, exc, result, uptime_seconds, uptime_human>>

(* lines 284-285, one iteration *)
LogWarning ==
    /\ pc = "log_alerts"
    /\ pending # <<>>
    /\ logwarn' = Append(logwarn, [cycle |-> calls, message |-> Head(pending).message])
    /\ pending' = Tail(pending)
    /\ UNCHANGED <<pc, args, THRESHOLDS, snapshot, stdout, outfile,
                   taken, calls, sleeps, exc, result, uptime_seconds, uptime_human>>

CheckIntervalInverted ==
    /\ pc = "log_alerts"
    /\ pending = <<>>
    /\ pc' = IF Namespace.interval # 0 THEN "done" ELSE "sleep"
    /\ UNCHANGED <<args, THRESHOLDS, snapshot, pending, stdout, outfile, logwarn,
                   taken, calls, sleeps, exc, result, uptime_seconds, uptime_human>>

(* lines 287-288 *)
CheckInterval ==
    /\ pc = "log_alerts"
    /\ pending = <<>>
    /\ pc' = IF Namespace.interval = 0 THEN "done" ELSE "sleep"
    /\ UNCHANGED <<args, THRESHOLDS, snapshot, pending, stdout, outfile, logwarn,
                   taken, calls, sleeps, exc, result, uptime_seconds, uptime_human>>

(* line 289: time.sleep raises ValueError on a negative length *)
Sleep ==
    /\ pc = "sleep"
    /\ IF Namespace.interval < 0
       THEN pc' = "crashed" /\ exc' = "ValueError" /\ sleeps' = sleeps
       ELSE pc' = "take_snapshot" /\ exc' = exc /\ sleeps' = sleeps + 1
    /\ UNCHANGED <<args, THRESHOLDS, snapshot, pending, stdout, outfile, logwarn,
                   taken, calls, result, uptime_seconds, uptime_human>>

(* SIGINT: caught at lines 291-292 inside the try block, uncaught before it *)
Interrupt ==
    /\ pc \in InTry \cup BeforeTry
    /\ exc' = "KeyboardInterrupt"
    /\ pc' = IF pc \in InTry THEN "stopped" ELSE "crashed"
    /\ UNCHANGED <<args, THRESHOLDS, snapshot, pending, stdout, outfile, logwarn,
                   taken, calls, sleeps, result, uptime_seconds, uptime_human>>

Next ==
    \/ ParseArgs
    \/ ApplyThresholds
    \/ TakeSnapshot
    \/ TakeSnapshotFails
    \/ PrintJson
    \/ WriteFile
    \/ WriteFileFails
    \/ PrintBody
    \/ PrintAlerts
    \/ LogWarning
    \/ CheckInterval
    \/ Sleep
    \/ Interrupt

Spec == Init /\ [][Next]_vars

----------------------------------------------------------------------------
(* TestCheckAlerts: a fake snapshot, THRESHOLDS set directly, one call *)

InitAlerts ==
    /\ pc = "test_check_alerts"
    /\ args = <<>>
    /\ THRESHOLDS \in [cpu_percent : TestThresholdValues,
                       memory_percent : TestThresholdValues,
                       disk_percent : TestThresholdValues]
    /\ \E cpu \in TestReadingValues, mem \in TestReadingValues,
          disk \in TestReadingValues : snapshot = <<Readings(cpu, mem, disk)>>
    /\ pending = <<>>
    /\ stdout = <<>>
    /\ outfile = <<>>
    /\ logwarn = <<>>
    /\ taken = <<>>
    /\ calls = 0
    /\ sleeps = 0
    /\ exc = "None"
    /\ result = <<>>
    /\ uptime_seconds = 0
    /\ uptime_human = <<>>

CallCheckAlerts ==
    /\ pc = "test_check_alerts"
    /\ result = <<>>
    /\ result' = <<check_alerts(Snap)>>
    /\ UNCHANGED <<pc, args, THRESHOLDS, snapshot, pending, stdout, outfile, logwarn,
                   taken, calls, sleeps, exc, uptime_seconds, uptime_human>>

NextAlerts == CallCheckAlerts

SpecAlerts == InitAlerts /\ [][NextAlerts]_vars

----------------------------------------------------------------------------
(* TestFmtUptime: one call on a non-negative number of seconds *)

InitUptime ==
    /\ pc = "test_fmt_uptime"
    /\ args = <<>>
    /\ THRESHOLDS = DefaultThresholds
    /\ snapshot = <<>>
    /\ pending = <<>>
    /\ stdout = <<>>
    /\ outfile = <<>>
    /\ logwarn = <<>>
    /\ taken = <<>>
    /\ calls = 0
    /\ sleeps = 0
    /\ exc = "None"
    /\ result = <<>>
    /\ uptime_seconds \in 0..MaxUptime
    /\ uptime_human = <<>>

CallFmtUptime ==
    /\ pc = "test_fmt_uptime"
    /\ uptime_human = <<>>
    /\ uptime_human' = <<fmt_uptime(uptime_seconds)>>
    /\ UNCHANGED <<pc, args, THRESHOLDS, snapshot, pending, stdout, outfile, logwarn,
                   taken, calls, sleeps, exc, result, uptime_seconds>>

NextUptime == CallFmtUptime

SpecUptime == InitUptime /\ [][NextUptime]_vars

----------------------------------------------------------------------------
(* Vocabulary of the properties *)

MetricSet == {"cpu_percent", "memory_percent", "disk_percent"}

(* the reading a snapshot holds for a metric *)
Value(snap, m) ==
    CASE m = "cpu_percent" -> snap.cpu.percent_overall
      [] m = "memory_percent" -> snap.memory.ram.percent
      [] m = "disk_percent" -> snap.disk.percent

(* how many alerts of a sequence are about metric m *)
Count(alerts, m) == Cardinality({k \in 1..Len(alerts) : alerts[k].metric = m})

(* position of a metric in the fixed order cpu, memory, disk; 0 if foreign *)
Rank(m) ==
    IF \E r \in 1..Len(Metrics) : Metrics[r] = m
    THEN CHOOSE r \in 1..Len(Metrics) : Metrics[r] = m
    ELSE 0

(* what has been emitted for cycle c *)
StdoutKinds(c) == {stdout[k].kind : k \in {n \in 1..Len(stdout) : stdout[n].cycle = c}}
FileLines(c) == Cardinality({k \in 1..Len(outfile) : outfile[k] = c})
LogLines(c) == Cardinality({k \in 1..Len(logwarn) : logwarn[k].cycle = c})

FullyReported(c) ==
    /\ StdoutKinds(c) = IF Namespace.json THEN {"json"} ELSE {"text_body", "text_alerts"}
    /\ FileLines(c) = IF Namespace.json /\ Namespace.output # "None" THEN 1 ELSE 0
    /\ LogLines(c) = Len(taken[c].alerts)

NothingReported(c) ==
    /\ StdoutKinds(c) = {}
    /\ FileLines(c) = 0
    /\ LogLines(c) = 0

(* a command line the documentation allows: percentages and a real interval *)
InRange(t) == 0 <= t /\ t <= 1000
ValidConfig ==
    /\ args # <<>>
    /\ Namespace.interval >= 0
    /\ InRange(Namespace.cpu_threshold)
    /\ InRange(Namespace.mem_threshold)
    /\ InRange(Namespace.disk_threshold)

----------------------------------------------------------------------------
(* C1: for each of cpu, memory and disk, check_alerts returns exactly one   *)
(* alert for the metric when its value >= its threshold (equality fires)    *)
(* and none when its value < its threshold.                                 *)
C1_InclusiveThreshold ==
    result # <<>> =>
        \A m \in MetricSet :
            Count(result[1], m) = IF Value(Snap, m) >= THRESHOLDS[m] THEN 1 ELSE 0

C1_Witness ==
    /\ result # <<>>
    /\ Value(Snap, "cpu_percent") = THRESHOLDS["cpu_percent"]
    /\ Count(result[1], "cpu_percent") = 1
    /\ Value(Snap, "memory_percent") < THRESHOLDS["memory_percent"]
    /\ Count(result[1], "memory_percent") = 0
    /\ Value(Snap, "disk_percent") > THRESHOLDS["disk_percent"]
    /\ Count(result[1], "disk_percent") = 1

(* C2: the alerts returned by check_alerts are a subsequence of             *)
(* [cpu_percent, memory_percent, disk_percent]: ranks strictly increase,    *)
(* no metric twice, at most 3 alerts.                                       *)
C2_FixedOrder ==
    result # <<>> =>
        /\ Len(result[1]) <= 3
        /\ \A k \in 1..Len(result[1]) : Rank(result[1][k].metric) \in 1..3
        /\ \A j, k \in 1..Len(result[1]) :
               j < k => Rank(result[1][j].metric) < Rank(result[1][k].metric)

C2_Witness ==
    /\ result # <<>>
    /\ Len(result[1]) = 2
    /\ result[1][1].metric = "cpu_percent"
    /\ result[1][2].metric = "disk_percent"
    /\ Value(Snap, "memory_percent") < THRESHOLDS["memory_percent"]

(* C3: the level of an alert is determined by its metric: WARNING for       *)
(* cpu_percent and memory_percent, CRITICAL for disk_percent; nothing else. *)
C3_LevelByMetric ==
    result # <<>> =>
        \A k \in 1..Len(result[1]) :
            \/ /\ result[1][k].metric \in {"cpu_percent", "memory_percent"}
               /\ result[1][k].level = "WARNING"
            \/ /\ result[1][k].metric = "disk_percent"
               /\ result[1][k].level = "CRITICAL"

C3_Witness ==
    /\ result # <<>>
    /\ Len(result[1]) = 3
    /\ result[1][3].metric = "disk_percent"
    /\ result[1][3].level = "CRITICAL"
    /\ result[1][1].level = "WARNING"

(* C4: in every snapshot take_snapshot returns, status is "ALERT" exactly   *)
(* when alerts is non-empty and "OK" exactly when it is empty.              *)
C4_StatusIffAlerts ==
    \A c \in 1..Len(taken) :
        /\ taken[c].status \in {"OK", "ALERT"}
        /\ taken[c].status = "ALERT" <=> taken[c].alerts # <<>>
        /\ taken[c].status = "OK" <=> taken[c].alerts = <<>>

C4_Witness ==
    /\ Len(taken) = 2
    /\ taken[1].status = "ALERT"
    /\ Len(taken[1].alerts) >= 1
    /\ taken[2].status = "OK"
    /\ taken[2].alerts = <<>>

(* C5: _fmt_uptime(seconds) is "{d}d {h}h {m}m" with d = seconds div 86400, *)
(* h = (seconds mod 86400) div 3600, m = ((seconds mod 86400) mod 3600) div *)
(* 60; so 0 <= h < 24, 0 <= m < 60, and the seconds left over are in 0..59. *)
C5_UptimeDecomposition ==
    uptime_human # <<>> =>
        LET d == uptime_seconds \div 86400
            h == (uptime_seconds % 86400) \div 3600
            m == ((uptime_seconds % 86400) % 3600) \div 60
            left == uptime_seconds - (86400 * d + 3600 * h + 60 * m)
        IN  /\ uptime_human[1] = ToString(d) \o "d " \o ToString(h) \o "h "
                                 \o ToString(m) \o "m"
            /\ 0 <= h /\ h < 24
            /\ 0 <= m /\ m < 60
            /\ 0 <= left /\ left < 60

C5_Witness ==
    /\ uptime_seconds = 95459
    /\ uptime_human = <<"1d 2h 30m">>

(* C6: in the poll loop (interval > 0) a failed metric collection aborts    *)
(* only that cycle: nothing is reported for it and the process goes on to   *)
(* further cycles.                                                          *)
C6_FailureAbortsOnlyCycle ==
    (ValidConfig /\ Namespace.interval > 0 /\ exc = "ProviderError") =>
        /\ NothingReported(calls)
        /\ pc \notin Ended

(* C7: a threshold outside [0,100] is rejected before sampling:             *)
(* take_snapshot is never called and nothing is reported.                   *)
C7_BadThresholdRejected ==
    (/\ args # <<>>
     /\ Namespace.interval >= 0
     /\ \/ ~InRange(Namespace.cpu_threshold)
        \/ ~InRange(Namespace.mem_threshold)
        \/ ~InRange(Namespace.disk_threshold)) =>
        /\ calls = 0
        /\ taken = <<>>
        /\ stdout = <<>>

(* C8: an interrupt never leaves a partially reported cycle: every cycle    *)
(* has all of its outputs or none, and every cycle before the interrupted   *)
(* one has all of them.                                                     *)
C8_InterruptNeverPartial ==
    (ValidConfig /\ exc = "KeyboardInterrupt") =>
        /\ \A c \in 1..Len(taken) : FullyReported(c) \/ NothingReported(c)
        /\ \A c \in 1..(Len(taken) - 1) : FullyReported(c)

(* C9: with interval 0 main runs one cycle and returns without sleeping;    *)
(* with interval > 0 the loop is never left by the break, and a sleep       *)
(* separates every cycle from the next.                                     *)
C9_RunOnceOrPoll ==
    args # <<>> =>
        /\ Namespace.interval = 0 =>
               /\ sleeps = 0
               /\ pc # "sleep"
               /\ calls <= 1
               /\ pc = "done" => (calls = 1 /\ Len(taken) = 1 /\ FullyReported(1))
        /\ Namespace.interval > 0 =>
               /\ pc # "done"
               /\ sleeps <= calls /\ calls <= sleeps + 1
               /\ pc = "take_snapshot" => sleeps = calls
               /\ pc = "sleep" => (calls = sleeps + 1 /\ FullyReported(calls))

C9_Witness ==
    /\ args # <<>>
    /\ Namespace.interval > 0
    /\ pc = "take_snapshot"
    /\ calls = 2
    /\ sleeps = 2

(* C10: THRESHOLDS is written only at startup, before the first cycle; the  *)
(* alerts of a cycle depend only on its three readings and the thresholds:  *)
(* a metric at or above its threshold alerts in every cycle, and cycles     *)
(* with equal readings have equal alerts.                                   *)
C10_Stateless ==
    /\ [][pc # "apply_thresholds" => THRESHOLDS' = THRESHOLDS]_vars
    /\ [](calls > 0 => pc # "apply_thresholds")
    /\ [](\A c \in 1..Len(taken) : \A m \in MetricSet :
              Count(taken[c].alerts, m) = IF Value(taken[c], m) >= THRESHOLDS[m] THEN 1 ELSE 0)
    /\ [](\A b, c \in 1..Len(taken) :
              (\A m \in MetricSet : Value(taken[b], m) = Value(taken[c], m))
                  => taken[b].alerts = taken[c].alerts)

C10_Witness ==
    /\ Len(taken) = 2
    /\ Value(taken[1], "cpu_percent") >= THRESHOLDS["cpu_percent"]
    /\ Value(taken[2], "cpu_percent") >= THRESHOLDS["cpu_percent"]
    /\ Count(taken[1].alerts, "cpu_percent") = 1
    /\ Count(taken[2].alerts, "cpu_percent") = 1
    /\ taken[1].alerts = taken[2].alerts
    /\ THRESHOLDS # DefaultThresholds

====
